---- MODULE Spec2Model ----
(***************************************************************************)
(* memos-api-mcp: the MCP tool handlers of src/src/index.ts (add_message,  *)
(* search_memory, delete_memory, add_feedback) and of the variant in       *)
(* src/unnamed/part_000 (add_message, search_memory, get_message), the     *)
(* dispatcher queryMemos they share, and the pure derivations they use.    *)
(* src/unnamed/part_001 is an earlier copy of src/src/index.ts whose       *)
(* handlers and dispatcher are the same statement for statement.           *)
(*                                                                         *)
(* A JavaScript string is a sequence of one-character strings, so that     *)
(* concatenation, containment, upper-casing and JSON text are computed.    *)
(***************************************************************************)
EXTENDS Integers, Sequences, FiniteSets, TLC

VARIABLES env, inv, probe, proc

vars == <<env, inv, probe, proc>>

(***************************** bounds **************************************)

\* largest memory_limit_number a search_memory invocation is given
MaxLimit == 1

\* most chunks the https fallback receives a response body in
MaxChunks == 2

(***************************** strings *************************************)

Lower == <<"a","b","c","d","e","f","g","h","i","j","k","l","m","n","o","p","q","r","s","t","u","v","w","x","y","z">>

Upper == <<"A","B","C","D","E","F","G","H","I","J","K","L","M","N","O","P","Q","R","S","T","U","V","W","X","Y","Z">>

DigitChars == <<"0","1","2","3","4","5","6","7","8","9">>

\* String.prototype.toUpperCase on one character
UpperChar(c) ==
  IF \E i \in 1..Len(Lower) : Lower[i] = c
  THEN Upper[CHOOSE i \in 1..Len(Lower) : Lower[i] = c]
  ELSE c

\* String.prototype.toUpperCase
ToUpperCase(s) == [i \in 1..Len(s) |-> UpperChar(s[i])]

\* s.includes(sub) for strings
Contains(s, sub) ==
  \E i \in 0..(Len(s) - Len(sub)) : SubSeq(s, i + 1, i + Len(sub)) = sub

\* the template-literal rendering of a non-negative integer
RECURSIVE NumToStr(_)
NumToStr(n) ==
  IF n < 10 THEN <<DigitChars[n + 1]>>
  ELSE NumToStr(n \div 10) \o <<DigitChars[(n % 10) + 1]>>

\* whether s[i..] starts with lit
StartsAt(s, i, lit) ==
  /\ i + Len(lit) - 1 <= Len(s)
  /\ SubSeq(s, i, i + Len(lit) - 1) = lit

(************************** JavaScript values ******************************)

JUndefined == [t |-> "undefined"]
JNull == [t |-> "null"]
JBool(b) == [t |-> "bool", b |-> b]
JNum(n) == [t |-> "num", n |-> n]
JStr(s) == [t |-> "str", s |-> s]
JArr(a) == [t |-> "arr", a |-> a]
\* an object is its own properties in insertion order, each <<key, value>>
JObj(o) == [t |-> "obj", o |-> o]

\* obj[key], undefined when the object has no such property
Field(obj, key) ==
  IF \E i \in 1..Len(obj.o) : obj.o[i][1] = key
  THEN obj.o[CHOOSE i \in 1..Len(obj.o) : obj.o[i][1] = key][2]
  ELSE JUndefined

HasField(obj, key) == \E i \in 1..Len(obj.o) : obj.o[i][1] = key

\* { ...obj, key: value }: an existing key keeps its position
SetField(obj, key, value) ==
  IF HasField(obj, key)
  THEN JObj([i \in 1..Len(obj.o) |->
              IF obj.o[i][1] = key THEN <<key, value>> ELSE obj.o[i]])
  ELSE JObj(Append(obj.o, <<key, value>>))

(***************************** JSON text ***********************************)

\* the JSON escape of one character of a string
EscapeChar(c) ==
  CASE c = "\"" -> <<"\\", "\"">>
    [] c = "\\" -> <<"\\", "\\">>
    [] c = "\n" -> <<"\\", "n">>
    [] OTHER -> <<c>>

RECURSIVE EscapeStr(_)
EscapeStr(s) ==
  IF s = <<>> THEN <<>> ELSE EscapeChar(Head(s)) \o EscapeStr(Tail(s))

Quote(s) == <<"\"">> \o EscapeStr(s) \o <<"\"">>

RECURSIVE JsonStringify(_)
RECURSIVE StringifyElems(_)
RECURSIVE StringifyProps(_, _)

\* JSON.stringify(v) for a value that is not undefined
JsonStringify(v) ==
  CASE v.t = "null" -> <<"n","u","l","l">>
    [] v.t = "bool" -> IF v.b THEN <<"t","r","u","e">> ELSE <<"f","a","l","s","e">>
    [] v.t = "num" -> NumToStr(v.n)
    [] v.t = "str" -> Quote(v.s)
    [] v.t = "arr" -> <<"[">> \o StringifyElems(v.a) \o <<"]">>
    [] v.t = "obj" -> <<"{">> \o StringifyProps(v.o, TRUE) \o <<"}">>

\* array elements: an undefined element is written null
StringifyElems(a) ==
  IF a = <<>> THEN <<>>
  ELSE (IF Head(a).t = "undefined" THEN <<"n","u","l","l">> ELSE JsonStringify(Head(a)))
       \o (IF Tail(a) = <<>> THEN <<>> ELSE <<",">> \o StringifyElems(Tail(a)))

\* object properties: a property whose value is undefined is left out
StringifyProps(o, first) ==
  IF o = <<>> THEN <<>>
  ELSE IF Head(o)[2].t = "undefined" THEN StringifyProps(Tail(o), first)
  ELSE (IF first THEN <<>> ELSE <<",">>)
       \o Quote(Head(o)[1]) \o <<":">> \o JsonStringify(Head(o)[2])
       \o StringifyProps(Tail(o), FALSE)

\* the object JSON.stringify writes: properties with undefined values dropped
Written(obj) == JObj(SelectSeq(obj.o, LAMBDA p : p[2].t # "undefined"))

ParseFail == [ok |-> FALSE, v |-> JNull, i |-> 0]
ParseOk(v, i) == [ok |-> TRUE, v |-> v, i |-> i]

IsWs(c) == c \in {" ", "\n"}
IsDigit(c) == \E k \in 1..Len(DigitChars) : DigitChars[k] = c
DigitVal(c) == (CHOOSE k \in 1..Len(DigitChars) : DigitChars[k] = c) - 1

RECURSIVE SkipWs(_, _)
SkipWs(s, i) == IF i <= Len(s) /\ IsWs(s[i]) THEN SkipWs(s, i + 1) ELSE i

\* digits from s[i]: <<value, index after the last digit>>
RECURSIVE ParseDigits(_, _, _)
ParseDigits(s, i, acc) ==
  IF i <= Len(s) /\ IsDigit(s[i])
  THEN ParseDigits(s, i + 1, acc * 10 + DigitVal(s[i]))
  ELSE <<acc, i>>

\* the characters of a JSON string from s[i], the opening quote already read
RECURSIVE ParseChars(_, _, _)
ParseChars(s, i, acc) ==
  IF i > Len(s) THEN ParseFail
  ELSE IF s[i] = "\"" THEN ParseOk(JStr(acc), i + 1)
  ELSE IF s[i] = "\n" THEN ParseFail
  ELSE IF s[i] = "\\" THEN
    IF i + 1 > Len(s) THEN ParseFail
    ELSE IF s[i + 1] = "n" THEN ParseChars(s, i + 2, Append(acc, "\n"))
    ELSE IF s[i + 1] \in {"\"", "\\"} THEN ParseChars(s, i + 2, Append(acc, s[i + 1]))
    ELSE ParseFail
  ELSE ParseChars(s, i + 1, Append(acc, s[i]))

RECURSIVE ParseValue(_, _)
RECURSIVE ParseElems(_, _, _)
RECURSIVE ParseProps(_, _, _)

\* one JSON value from s[i], leading white space skipped
ParseValue(s, i) ==
  LET j == SkipWs(s, i) IN
  IF j > Len(s) THEN ParseFail
  ELSE IF StartsAt(s, j, <<"n","u","l","l">>) THEN ParseOk(JNull, j + 4)
  ELSE IF StartsAt(s, j, <<"t","r","u","e">>) THEN ParseOk(JBool(TRUE), j + 4)
  ELSE IF StartsAt(s, j, <<"f","a","l","s","e">>) THEN ParseOk(JBool(FALSE), j + 5)
  ELSE IF IsDigit(s[j]) THEN
    LET d == ParseDigits(s, j, 0) IN
    IF s[j] = "0" /\ d[2] > j + 1 THEN ParseFail ELSE ParseOk(JNum(d[1]), d[2])
  ELSE IF s[j] = "\"" THEN ParseChars(s, j + 1, <<>>)
  ELSE IF s[j] = "[" THEN
    LET k == SkipWs(s, j + 1) IN
    IF k <= Len(s) /\ s[k] = "]" THEN ParseOk(JArr(<<>>), k + 1)
    ELSE ParseElems(s, k, <<>>)
  ELSE IF s[j] = "{" THEN
    LET k == SkipWs(s, j + 1) IN
    IF k <= Len(s) /\ s[k] = "}" THEN ParseOk(JObj(<<>>), k + 1)
    ELSE ParseProps(s, k, JObj(<<>>))
  ELSE ParseFail

\* the elements of an array from s[i], up to and including the closing bracket
ParseElems(s, i, acc) ==
  LET e == ParseValue(s, i) IN
  IF ~e.ok THEN ParseFail
  ELSE LET k == SkipWs(s, e.i) IN
    IF k > Len(s) THEN ParseFail
    ELSE IF s[k] = "]" THEN ParseOk(JArr(Append(acc, e.v)), k + 1)
    ELSE IF s[k] = "," THEN ParseElems(s, k + 1, Append(acc, e.v))
    ELSE ParseFail

\* the properties of an object from s[i], up to and including the closing brace;
\* a repeated key keeps its first position and takes the last value
ParseProps(s, i, acc) ==
  LET j == SkipWs(s, i) IN
  IF j > Len(s) \/ s[j] # "\"" THEN ParseFail
  ELSE LET key == ParseChars(s, j + 1, <<>>) IN
    IF ~key.ok THEN ParseFail
    ELSE LET c == SkipWs(s, key.i) IN
      IF c > Len(s) \/ s[c] # ":" THEN ParseFail
      ELSE LET e == ParseValue(s, c + 1) IN
        IF ~e.ok THEN ParseFail
        ELSE LET k == SkipWs(s, e.i) IN
          IF k > Len(s) THEN ParseFail
          ELSE IF s[k] = "}" THEN ParseOk(SetField(acc, key.v.s, e.v), k + 1)
          ELSE IF s[k] = "," THEN ParseProps(s, k + 1, SetField(acc, key.v.s, e.v))
          ELSE ParseFail

\* JSON.parse(text): ok is FALSE where JSON.parse throws a SyntaxError
JsonParse(text) ==
  LET r == ParseValue(text, 1) IN
  IF r.ok /\ SkipWs(text, r.i) > Len(text) THEN [ok |-> TRUE, v |-> r.v]
  ELSE [ok |-> FALSE, v |-> JNull]

(************************ literals of the source ***************************)

ErrApiKeyNotSet == <<"M","E","M","O","S","_","A","P","I","_","K","E","Y"," ","i","s"," ","n","o","t"," ","s","e","t",","," ","p","l","e","a","s","e"," ","s","e","t"," ","i","t"," ","i","n"," ","t","h","e"," ","e","n","v","i","r","o","n","m","e","n","t"," ","v","a","r","i","a","b","l","e","s"," ","o","r"," ","m","c","p",".","j","s","o","n"," ","f","i","l","e">>

ErrUserIdNotSet == <<"M","E","M","O","S","_","U","S","E","R","_","I","D"," ","i","s"," ","n","o","t"," ","s","e","t",","," ","p","l","e","a","s","e"," ","s","e","t"," ","i","t"," ","i","n"," ","t","h","e"," ","e","n","v","i","r","o","n","m","e","n","t"," ","v","a","r","i","a","b","l","e","s"," ","o","r"," ","m","c","p",".","j","s","o","n"," ","f","i","l","e">>

UnknownChannelPrefix == <<"U","n","k","n","o","w","n"," ","c","h","a","n","n","e","l",":"," ">>

CandidatesInfix == <<","," ","c","a","n","d","i","d","a","t","e","s",":"," ">>

ErrorPrefix == <<"E","r","r","o","r",":"," ">>

UnknownError == <<"U","n","k","n","o","w","n"," ","e","r","r","o","r">>

DefaultBaseUrl == <<"h","t","t","p","s",":","/","/","m","e","m","o","s",".","m","e","m","t","e","n","s","o","r",".","c","n","/","a","p","i","/","o","p","e","n","m","e","m","/","v","1">>

TokenPrefix == <<"T","o","k","e","n"," ">>

HttpPrefix == <<"H","T","T","P"," ">>

K_user_id == <<"u","s","e","r","_","i","d">>

K_user_ids == <<"u","s","e","r","_","i","d","s">>

K_conversation_id == <<"c","o","n","v","e","r","s","a","t","i","o","n","_","i","d">>

K_messages == <<"m","e","s","s","a","g","e","s">>

K_role == <<"r","o","l","e">>

K_content == <<"c","o","n","t","e","n","t">>

K_chat_time == <<"c","h","a","t","_","t","i","m","e">>

K_query == <<"q","u","e","r","y">>

K_memory_limit_number == <<"m","e","m","o","r","y","_","l","i","m","i","t","_","n","u","m","b","e","r">>

K_memory_ids == <<"m","e","m","o","r","y","_","i","d","s">>

K_feedback_content == <<"f","e","e","d","b","a","c","k","_","c","o","n","t","e","n","t">>

K_agent_id == <<"a","g","e","n","t","_","i","d">>

K_app_id == <<"a","p","p","_","i","d">>

K_feedback_time == <<"f","e","e","d","b","a","c","k","_","t","i","m","e">>

K_allow_public == <<"a","l","l","o","w","_","p","u","b","l","i","c">>

K_allow_knowledgebase_ids == <<"a","l","l","o","w","_","k","n","o","w","l","e","d","g","e","b","a","s","e","_","i","d","s">>

K_source == <<"s","o","u","r","c","e">>

PathAddMessage == <<"/","a","d","d","/","m","e","s","s","a","g","e">>

PathSearchMemory == <<"/","s","e","a","r","c","h","/","m","e","m","o","r","y">>

PathGetMessage == <<"/","g","e","t","/","m","e","s","s","a","g","e">>

PathDeleteMemory == <<"/","d","e","l","e","t","e","/","m","e","m","o","r","y">>

PathAddFeedback == <<"/","a","d","d","/","f","e","e","d","b","a","c","k">>

MCP == <<"M","C","P">>

MEMOS == <<"M","E","M","O","S">>

MODELSCOPE == <<"M","O","D","E","L","S","C","O","P","E">>

MCPSO == <<"M","C","P","S","O">>

MCPMARKETCN == <<"M","C","P","M","A","R","K","E","T","C","N">>

MCPMARKETCOM == <<"M","C","P","M","A","R","K","E","T","C","O","M">>

GITHUB == <<"G","I","T","H","U","B">>

GLAMA == <<"G","L","A","M","A">>

PULSEMCP == <<"P","U","L","S","E","M","C","P">>

MCPSERVERS == <<"M","C","P","S","E","R","V","E","R","S">>

LOBEHUB == <<"L","O","B","E","H","U","B">>

MODELSCOPE_REMOTE == <<"M","O","D","E","L","S","C","O","P","E","_","R","E","M","O","T","E">>

\* the default of memory_limit_number
DefaultLimit == 6

(******************* messages of the runtime's errors **********************)

\* ReferenceError of the variant's queryMemos where no global fetch exists
FetchNotDefined == <<"f","e","t","c","h"," ","i","s"," ","n","o","t"," ","d","e","f","i","n","e","d">>

\* TypeError a rejected fetch carries
FetchFailed == <<"f","e","t","c","h"," ","f","a","i","l","e","d">>

\* Error the 'error' event of an https request carries
SocketHangUp == <<"s","o","c","k","e","t"," ","h","a","n","g"," ","u","p">>

\* TypeError of res.json() when the body stream breaks
BodyTerminated == <<"t","e","r","m","i","n","a","t","e","d">>

\* SyntaxError of res.json() on a body that is not JSON
UnexpectedToken == <<"U","n","e","x","p","e","c","t","e","d"," ","t","o","k","e","n"," ","i","n"," ","J","S","O","N">>

(******************************* inputs ************************************)

Variants == {"index", "part_000"}

Slots == {"s1", "s2"}

ApiKey1 == <<"k","1">>

User1 == <<"u","1">>

ApiKeys == {JUndefined, JStr(<<>>), JStr(ApiKey1)}

UserIds == {JUndefined, JStr(<<>>), JStr(User1)}

\* MEMOS_CHANNEL as configured: absent, empty, in mixed case, a tag only the
\* variant lists, and a tag nobody lists
Channels ==
  {JUndefined, JStr(<<>>), JStr(<<"M","c","p","s","o">>), JStr(GITHUB), JStr(<<"x","1">>)}

First1 == <<"h","i">>

First2 == <<"b","y","e">>

FirstMessages == {First1, First2}

Time0 == <<"2","0","2","5","-","1","2","-","3","1"," ","2","3",":","5","9",":","5","9",".","9","9","9">>

\* what the wall clock can read when generateChatTime is called
Clock1 ==
  [year |-> 2026, month |-> 1, date |-> 1, hours |-> 9, minutes |-> 0, seconds |-> 0,
   milliseconds |-> 0]

Clock2 ==
  [year |-> 2026, month |-> 1, date |-> 1, hours |-> 9, minutes |-> 0, seconds |-> 0,
   milliseconds |-> 1]

Clocks == {Clock1, Clock2}

\* a number written with at least width digits, zeros in front
RECURSIVE Pad(_, _)
Pad(n, width) ==
  IF Len(NumToStr(n)) >= width THEN NumToStr(n)
  ELSE <<"0">> \o Pad(n, width - 1)

\* dayjs().format("YYYY-MM-DD HH:mm:ss.SSS") when the clock reads now
generateChatTime(now) ==
  Pad(now.year, 4) \o <<"-">> \o Pad(now.month, 2) \o <<"-">> \o Pad(now.date, 2)
    \o <<" ">> \o Pad(now.hours, 2) \o <<":">> \o Pad(now.minutes, 2)
    \o <<":">> \o Pad(now.seconds, 2) \o <<".">> \o Pad(now.milliseconds, 3)

Time1 == generateChatTime(Clock1)

Time2 == generateChatTime(Clock2)

\* the timestamps generateChatTime can return
Times == {generateChatTime(now) : now \in Clocks}

Message(role, content, chat_time) ==
  JObj(<< <<K_role, JStr(role)>>, <<K_content, JStr(content)>> >>
       \o (IF chat_time.t = "undefined" THEN <<>> ELSE << <<K_chat_time, chat_time>> >>))

\* a message that brings its chat_time, one that leaves it out, and one that
\* brings the empty string
MessageLists ==
  { << Message(<<"u","s","e","r">>, <<"q">>, JStr(Time0)),
       Message(<<"a","s","s","i","s","t","a","n","t">>, <<"a">>, JUndefined),
       Message(<<"u","s","e","r">>, <<"o","k">>, JStr(<<>>)) >> }

Queries == {<<"q">>}

Limits == {JNum(n) : n \in 0..MaxLimit}

\* the limit as a client can send it: a number, or left out of the arguments
LimitArgs == Limits \cup {JUndefined}

MemoryIdLists == {<<>>, <<JStr(<<"m","1">>), JStr(<<"m","2">>)>>}

Feedback1 == <<"f","i","x">>

\* the optional parameters of add_feedback: all omitted, or all given
FeedbackOptions ==
  { [agent_id |-> JUndefined, app_id |-> JUndefined, feedback_time |-> JUndefined,
     allow_public |-> JUndefined, allow_knowledgebase_ids |-> JUndefined],
    [agent_id |-> JStr(<<"a","g">>), app_id |-> JStr(<<"a","p">>), feedback_time |-> JStr(Time0),
     allow_public |-> JBool(FALSE), allow_knowledgebase_ids |-> JArr(<<JStr(<<"k","b">>)>>)] }

BodyJson == <<"{","\"","c","o","d","e","\"",":"," ","0","}">>

BodyText == <<"s","e","r","v","e","r"," ","e","r","r","o","r">>

Bodies == {BodyJson, BodyText, <<>>}

\* the statuses the remote endpoint answers with
Statuses == {200, 500}

StatusText(status) ==
  IF status = 200 THEN <<"O","K">> ELSE <<"I","n","t","e","r","n","a","l"," ","S","e","r","v","e","r"," ","E","r","r","o","r">>

(************************** configuration **********************************)

\* the README's candidate values for MEMOS_CHANNEL
ReadmeChannels ==
  {MODELSCOPE, MCPSO, MCPMARKETCN, MCPMARKETCOM, GLAMA, PULSEMCP, MCPSERVERS,
   LOBEHUB, MEMOS, GITHUB}

\* !v, negated: whether JavaScript takes v for true
Truthy(v) ==
  CASE v.t = "undefined" -> FALSE
    [] v.t = "null" -> FALSE
    [] v.t = "bool" -> v.b
    [] v.t = "num" -> v.n # 0
    [] v.t = "str" -> v.s # <<>>
    [] OTHER -> TRUE

\* a || b
OrElse(a, b) == IF Truthy(a) THEN a ELSE b

\* `${v}` and v + "": the string JavaScript makes of a string, a number or undefined
JsToString(v) ==
  CASE v.t = "str" -> v.s
    [] v.t = "num" -> NumToStr(v.n)
    [] v.t = "undefined" -> <<"u","n","d","e","f","i","n","e","d">>
    [] v.t = "null" -> <<"n","u","l","l">>

\* Array.prototype.includes
Includes(list, x) == \E i \in 1..Len(list) : list[i] = x

\* Array.prototype.join
RECURSIVE Join(_, _)
Join(list, sep) ==
  IF list = <<>> THEN <<>>
  ELSE IF Len(list) = 1 THEN list[1]
  ELSE list[1] \o sep \o Join(Tail(list), sep)

\* the tag used when MEMOS_CHANNEL is not configured
DefaultChannel(variant) == IF variant = "index" THEN MEMOS ELSE MODELSCOPE_REMOTE

\* a channel tag taken as configured, without upper-casing
MEMOS_CHANNEL_ID_CaseSensitive(e) ==
  IF e.MEMOS_CHANNEL.t = "undefined" THEN DefaultChannel(e.variant)
  ELSE e.MEMOS_CHANNEL.s

\* process.env.MEMOS_CHANNEL?.toUpperCase() ?? default
MEMOS_CHANNEL_ID(e) ==
  IF e.MEMOS_CHANNEL.t = "undefined" THEN DefaultChannel(e.variant)
  ELSE ToUpperCase(e.MEMOS_CHANNEL.s)

candidateChannelId(variant) ==
  IF variant = "index"
  THEN <<MODELSCOPE, MCPSO, MCPMARKETCN, MCPMARKETCOM, MEMOS>>
  ELSE <<MODELSCOPE, MCPSO, MCPMARKETCN, MCPMARKETCOM, MEMOS, GITHUB, GLAMA,
         PULSEMCP, MCPSERVERS, LOBEHUB, MODELSCOPE_REMOTE>>

\* process.env.MEMOS_BASE_URL || default
MEMOS_BASE_URL(e) == OrElse(e.MEMOS_BASE_URL, JStr(DefaultBaseUrl)).s

\* the tools each file registers with server.tool
Tools(variant) ==
  IF variant = "index"
  THEN {"add_message", "search_memory", "delete_memory", "add_feedback"}
  ELSE {"add_message", "search_memory", "get_message"}

\* the tools the README lists under "Available MCP Tools"
ReadmeTools == {"add_message", "search_memory", "get_message"}

\* the names a client may call: those either adapter registers
ToolNames == Tools("index") \cup Tools("part_000")

(***************************** derivations *********************************)

\* Md5.hashStr: the digest is kept as the injective image of its input, a
\* string that is never empty and that no input is
stringToMd5(input) == <<"#md5">> \o input

\* stringToMd5(process.env.MEMOS_USER_ID + '\n' + conversation_first_message)
\*   || process.env.MEMOS_CONVERSATION_ID
actualConversationId(e, firstMessage) ==
  OrElse(JStr(stringToMd5(JsToString(e.MEMOS_USER_ID) \o <<"\n">> \o firstMessage)),
         e.MEMOS_CONVERSATION_ID)

\* the user identifier a handler sends. src/src/index.ts:
\*   MEMOS_CHANNEL_ID === "MEMOS" ? process.env.MEMOS_USER_ID
\*                                : process.env.MEMOS_USER_ID + "-" + MEMOS_CHANNEL_ID
\* the variant sends process.env.MEMOS_USER_ID as it is
actualUserId(e) ==
  IF e.variant = "index"
  THEN (IF MEMOS_CHANNEL_ID(e) = MEMOS THEN e.MEMOS_USER_ID
        ELSE JStr(JsToString(e.MEMOS_USER_ID) \o <<"-">> \o MEMOS_CHANNEL_ID(e)))
  ELSE e.MEMOS_USER_ID

(****************************** errors *************************************)

\* a thrown value: an Error (or subclass) instance with its message
NewError(message) == [instanceOfError |-> TRUE, message |-> message]

\* what a piece of code ends with: a returned value or a thrown one
Return(v) == [thrown |-> FALSE, v |-> v]
Throw(e) == [thrown |-> TRUE, e |-> e]

\* the unknown-channel Error; add_message of the variant lists the candidates
unknownChannel(e, tool) ==
  NewError(UnknownChannelPrefix \o MEMOS_CHANNEL_ID(e)
           \o (IF e.variant = "part_000" /\ tool = "add_message"
               THEN CandidatesInfix \o Join(candidateChannelId(e.variant), <<",", " ">>)
               ELSE <<>>))

\* configError without its MEMOS_API_KEY check
configError_NoApiKeyCheck(e, tool) ==
  IF ~Truthy(e.MEMOS_USER_ID) THEN <<NewError(ErrUserIdNotSet)>>
  ELSE IF ~Includes(candidateChannelId(e.variant), MEMOS_CHANNEL_ID(e))
  THEN <<unknownChannel(e, tool)>>
  ELSE <<>>

\* configError without its MEMOS_USER_ID check
configError_NoUserIdCheck(e, tool) ==
  IF ~Truthy(e.MEMOS_API_KEY) THEN <<NewError(ErrApiKeyNotSet)>>
  ELSE IF ~Includes(candidateChannelId(e.variant), MEMOS_CHANNEL_ID(e))
  THEN <<unknownChannel(e, tool)>>
  ELSE <<>>

\* configError without its channel check
configError_NoChannelCheck(e, tool) ==
  IF ~Truthy(e.MEMOS_API_KEY) THEN <<NewError(ErrApiKeyNotSet)>>
  ELSE IF ~Truthy(e.MEMOS_USER_ID) THEN <<NewError(ErrUserIdNotSet)>>
  ELSE <<>>

\* the three checks with the channel check moved to the front
configError_ChannelFirst(e, tool) ==
  IF ~Includes(candidateChannelId(e.variant), MEMOS_CHANNEL_ID(e))
  THEN <<unknownChannel(e, tool)>>
  ELSE IF ~Truthy(e.MEMOS_API_KEY) THEN <<NewError(ErrApiKeyNotSet)>>
  ELSE IF ~Truthy(e.MEMOS_USER_ID) THEN <<NewError(ErrUserIdNotSet)>>
  ELSE <<>>

\* the three checks every handler opens with, in their order: <<>> when all
\* pass, else the one Error thrown
configError(e, tool) ==
  IF ~Truthy(e.MEMOS_API_KEY) THEN <<NewError(ErrApiKeyNotSet)>>
  ELSE IF ~Truthy(e.MEMOS_USER_ID) THEN <<NewError(ErrUserIdNotSet)>>
  ELSE IF ~Includes(candidateChannelId(e.variant), MEMOS_CHANNEL_ID(e))
  THEN <<unknownChannel(e, tool)>>
  ELSE <<>>

(*************************** request bodies ********************************)

\* a map that stamps every message, whether or not it brought its chat_time
newMessages_AlwaysStamp(messages, times) ==
  [i \in 1..Len(messages) |->
     JObj(<< <<K_role, Field(messages[i], K_role)>>,
             <<K_content, Field(messages[i], K_content)>>,
             <<K_chat_time, JStr(times[i])>> >>)]

\* messages.map(m => ({role, content, chat_time: m.chat_time || generateChatTime()}))
\* with times[i] the clock reading generateChatTime returns for message i
newMessages(messages, times) ==
  [i \in 1..Len(messages) |->
     JObj(<< <<K_role, Field(messages[i], K_role)>>,
             <<K_content, Field(messages[i], K_content)>>,
             <<K_chat_time, OrElse(Field(messages[i], K_chat_time), JStr(times[i]))>> >>)]

AddMessageBody(e, args, times) ==
  JObj(<< <<K_user_id, actualUserId(e)>>,
          <<K_conversation_id, actualConversationId(e, args.conversation_first_message.s)>>,
          <<K_messages, JArr(newMessages(args.messages.a, times))>> >>)

\* a search that prefers the configured conversation identifier to the derived one
SearchMemoryBody_EnvConversationId(e, args) ==
  JObj(<< <<K_query, args.query>>,
          <<K_user_id, actualUserId(e)>>,
          <<K_conversation_id,
            OrElse(e.MEMOS_CONVERSATION_ID,
                   actualConversationId(e, args.conversation_first_message.s))>>,
          <<K_memory_limit_number, OrElse(args.memory_limit_number, JNum(DefaultLimit))>> >>)

SearchMemoryBody(e, args) ==
  JObj(<< <<K_query, args.query>>,
          <<K_user_id, actualUserId(e)>>,
          <<K_conversation_id, actualConversationId(e, args.conversation_first_message.s)>>,
          <<K_memory_limit_number, OrElse(args.memory_limit_number, JNum(DefaultLimit))>> >>)

GetMessageBody(e, args) ==
  JObj(<< <<K_user_id, e.MEMOS_USER_ID>>,
          <<K_conversation_id, actualConversationId(e, args.conversation_first_message.s)>> >>)

\* a deletion that is scoped by a conversation identifier as well
DeleteMemoryBody_WithConversation(e, args) ==
  JObj(<< <<K_user_ids, JArr(<<actualUserId(e)>>)>>,
          <<K_conversation_id, actualConversationId(e, <<>>)>>,
          <<K_memory_ids, args.memory_ids>> >>)

DeleteMemoryBody(e, args) ==
  JObj(<< <<K_user_ids, JArr(<<actualUserId(e)>>)>>,
          <<K_memory_ids, args.memory_ids>> >>)

AddFeedbackBody(e, args) ==
  JObj(<< <<K_user_id, actualUserId(e)>>,
          <<K_conversation_id, actualConversationId(e, args.conversation_first_message.s)>>,
          <<K_feedback_content, args.feedback_content>>,
          <<K_agent_id, args.agent_id>>,
          <<K_app_id, args.app_id>>,
          <<K_feedback_time, args.feedback_time>>,
          <<K_allow_public, args.allow_public>>,
          <<K_allow_knowledgebase_ids, args.allow_knowledgebase_ids>> >>)

(****************************** dispatcher *********************************)

\* the provenance field queryMemos merges into the body: the fixed "MCP" in
\* src/src/index.ts, the channel tag its callers pass in the variant
Source(e) == IF e.variant = "index" THEN MCP ELSE MEMOS_CHANNEL_ID(e)

\* the request queryMemos puts on the wire. payload is the value whose
\* JSON.stringify text is the request body (undefined properties are gone).
Request(e, path, body, apiKey, via) ==
  [via |-> via,
   method |-> "POST",
   url |-> MEMOS_BASE_URL(e) \o path,
   contentType |-> <<"a","p","p","l","i","c","a","t","i","o","n","/","j","s","o","n">>,
   authorization |-> TokenPrefix \o JsToString(apiKey),
   payload |-> Written(SetField(body, K_source, JStr(Source(e))))]

\* queryMemos up to its first await: the requests it has sent, and the error
\* it has thrown if it has. src/src/index.ts takes the global fetch when
\* there is one and node:https otherwise; the variant calls fetch as it is.
queryMemosStart(e, path, body, apiKey) ==
  IF e.hasFetch
  THEN [sent |-> <<Request(e, path, body, apiKey, "fetch")>>, thrown |-> <<>>]
  ELSE IF e.variant = "index"
  THEN [sent |-> <<Request(e, path, body, apiKey, "https")>>, thrown |-> <<>>]
  ELSE [sent |-> <<>>, thrown |-> <<NewError(FetchNotDefined)>>]

\* `HTTP ${status} ${statusText}: ${txt}`
HttpError(status, statusText, txt) ==
  NewError(HttpPrefix \o NumToStr(status) \o <<" ">> \o statusText \o <<":", " ">> \o txt)

\* res.ok
IsOk(status) == status >= 200 /\ status < 300

\* the fetch path once fetch has resolved with a response
fetchOutcome(res) ==
  IF ~IsOk(res.status)
  THEN Throw(HttpError(res.status, res.statusText, IF res.readable THEN res.body ELSE <<>>))
  ELSE IF ~res.readable THEN Throw(NewError(BodyTerminated))
  ELSE IF JsonParse(res.body).ok THEN Return(JsonParse(res.body).v)
  ELSE Throw(NewError(UnexpectedToken))

\* Buffer.concat(chunks).toString("utf8")
RECURSIVE ConcatChunks(_)
ConcatChunks(chunks) ==
  IF chunks = <<>> THEN <<>> ELSE Head(chunks) \o ConcatChunks(Tail(chunks))

\* the https path on the response's 'end' event
httpsOutcome(res, chunks) ==
  LET txt == ConcatChunks(chunks)
      sc == IF res.status # 0 THEN res.status ELSE 0
  IN IF sc >= 200 /\ sc < 300
     THEN (IF JsonParse(txt).ok THEN Return(JsonParse(txt).v) ELSE Return(JStr(txt)))
     ELSE Throw(HttpError(sc, res.statusText, txt))

(******************************* handlers **********************************)

Envelope(isError, text, structuredContent) ==
  [kind |-> "envelope", isError |-> isError, text |-> text,
   structuredContent |-> structuredContent]

\* a return that renders the payload and leaves the structured form out
handlerReturn_TextOnly(data) == Envelope(FALSE, JsonStringify(data), JUndefined)

\* return { content: [{ type: "text", text: JSON.stringify(data) }], structuredContent: data }
handlerReturn(data) == Envelope(FALSE, JsonStringify(data), data)

\* a catch block that throws the error on to the protocol layer
handlerCatch_Rethrow(e) ==
  [kind |-> "fault", isError |-> TRUE,
   text |-> IF e.instanceOfError THEN e.message ELSE UnknownError,
   structuredContent |-> JUndefined]

\* catch (e) { return { content: [{ type: "text", text: `Error: ${...}` }], isError: true } }
handlerCatch(e) ==
  Envelope(TRUE,
           ErrorPrefix \o (IF e.instanceOfError THEN e.message ELSE UnknownError),
           JUndefined)

\* the try block's end: what the handler hands to the protocol layer
handlerSettle(outcome) ==
  IF outcome.thrown THEN handlerCatch(outcome.e) ELSE handlerReturn(outcome.v)

\* a dispatch that posts every tool's request to the add_message endpoint
PathOf_AlwaysAddMessage(tool) == PathAddMessage

PathOf(tool) ==
  CASE tool = "add_message" -> PathAddMessage
    [] tool = "search_memory" -> PathSearchMemory
    [] tool = "get_message" -> PathGetMessage
    [] tool = "delete_memory" -> PathDeleteMemory
    [] tool = "add_feedback" -> PathAddFeedback

NoReply == [kind |-> "none"]

\* the tool's parameter schema, checked by the protocol layer before the handler
\* is called: memory_limit_number: z.number() takes a number and nothing else
schemaAccepts(tool, args) ==
  tool = "search_memory" => args.memory_limit_number.t = "num"

\* an invocation the protocol layer turned down for its arguments: the handler
\* was never called
Refused(tool, args) == [pc |-> "refused", tool |-> tool, args |-> args, sent |-> <<>>]


Idle == [pc |-> "idle"]

\* a handler from its call to its first await (or to its return, when a check
\* or the dispatcher throws before anything is awaited)
handlerStart(e, tool, args, body) ==
  IF configError(e, tool) # <<>>
  THEN [pc |-> "done", tool |-> tool, args |-> args, sent |-> <<>>, reply |-> NoReply,
        result |-> handlerSettle(Throw(configError(e, tool)[1]))]
  ELSE LET q == queryMemosStart(e, PathOf(tool), body, e.MEMOS_API_KEY) IN
    IF q.thrown # <<>>
    THEN [pc |-> "done", tool |-> tool, args |-> args, sent |-> q.sent, reply |-> NoReply,
          result |-> handlerSettle(Throw(q.thrown[1]))]
    ELSE [pc |-> "awaiting", tool |-> tool, args |-> args, sent |-> q.sent]

\* a handler resumed after its await with the dispatcher's outcome
handlerResume(slot, reply, outcome) ==
  [pc |-> "done", tool |-> slot.tool, args |-> slot.args, sent |-> slot.sent,
   reply |-> reply, result |-> handlerSettle(outcome)]

\* the protocol layer's call of a tool: the schema first, then the handler
callTool(e, tool, args, body) ==
  IF schemaAccepts(tool, args) THEN handlerStart(e, tool, args, body)
  ELSE Refused(tool, args)

(****************************** start-up ***********************************)

StartErrorOccurred == <<"E","r","r","o","r"," ","o","c","c","u","r","r","e","d"," ","w","h","i","l","e"," ","s","t","a","r","t","i","n","g"," ","s","e","r","v","e","r">>

ServerFailedToStart == <<"S","e","r","v","e","r"," ","f","a","i","l","e","d"," ","t","o"," ","s","t","a","r","t">>

K_error == <<"e","r","r","o","r">>

K_details == <<"d","e","t","a","i","l","s">>

\* what new StdioServerTransport() or server.connect can throw
StartErrors == {NewError(<<"c","a","n","n","o","t"," ","r","e","a","d"," ","s","t","d","i","n">>), NewError(<<"t","r","a","n","s","p","o","r","t"," ","\"","s","t","d","i","o","\""," ","c","l","o","s","e","d">>)}

\* String(error) of an Error: its name, a colon and its message
ErrorToString(e) == <<"E","r","r","o","r",":"," ">> \o e.message

\* JSON.stringify({ error: title, details: String(error) })
errorRecord(title, error) ==
  JsonStringify(JObj(<< <<K_error, JStr(title)>>,
                        <<K_details, JStr(ErrorToString(error))>> >>))

\* the process before startServer's await has settled
Starting == [pc |-> "starting", stderr |-> <<>>, exit |-> <<>>, error |-> <<>>]

\* server.connect resolved: the process serves tool calls
connected(p) == [p EXCEPT !.pc = "running"]

\* startServer's catch block: console.error(record); throw error
startServerCatch(p, error) ==
  [p EXCEPT !.pc = "rethrown",
            !.stderr = Append(@, errorRecord(StartErrorOccurred, error)),
            !.error = <<error>>]

\* a rejection handler that ends the process with status 0
startFailed_ExitZero(p, error) ==
  [p EXCEPT !.pc = "exited",
            !.stderr = Append(@, errorRecord(ServerFailedToStart, error)),
            !.exit = <<0>>]

\* startServer().catch: console.error(record); process.exit(1)
startFailed(p, error) ==
  [p EXCEPT !.pc = "exited",
            !.stderr = Append(@, errorRecord(ServerFailedToStart, error)),
            !.exit = <<1>>]

\* a handler whose failure ends the process
collected_ExitOnError(p, slot) ==
  IF slot.pc = "done" /\ slot.result.isError
  THEN [p EXCEPT !.pc = "exited", !.exit = <<1>>]
  ELSE p

\* the process once a handler has returned and its result was written: the
\* catch block returns an envelope and the try block a payload, neither ends
\* the process nor keeps anything of the invocation
collected(p, slot) == p

(**************************** the process **********************************)

BaseUrl1 == <<"h","t","t","p","s",":","/","/","h">>

\* MEMOS_BASE_URL left unset, or set to the https URL of another host
BaseUrls == {JUndefined, JStr(BaseUrl1)}

ConversationIds == {JUndefined, JStr(<<"c","9">>)}

\* the environment a process can be started in
Envs ==
  [variant : Variants, hasFetch : BOOLEAN, MEMOS_API_KEY : ApiKeys,
   MEMOS_USER_ID : UserIds, MEMOS_CHANNEL : Channels, MEMOS_BASE_URL : BaseUrls,
   MEMOS_CONVERSATION_ID : ConversationIds]

NoProbe == [kind |-> "none"]

Init ==
  /\ env \in Envs
  /\ inv = [s \in Slots |-> Idle]
  /\ probe = NoProbe
  /\ proc = Starting

\* the protocol layer hands a handler's result to the client in the microtasks
\* that follow the handler's return, before the event loop runs another callback
NoneDone == \A t \in Slots : inv[t].pc \notin {"done", "refused"}

\* await server.connect(transport) resolves
StartServer ==
  /\ proc.pc = "starting"
  /\ proc' = connected(proc)
  /\ UNCHANGED <<env, inv, probe>>

\* new StdioServerTransport() or server.connect throws: the catch block of
\* startServer writes its record and throws the error on
StartServerFails ==
  /\ proc.pc = "starting"
  /\ \E error \in StartErrors : proc' = startServerCatch(proc, error)
  /\ UNCHANGED <<env, inv, probe>>

\* the rejection handler of startServer(): a second record, then process.exit(1)
StartFailed ==
  /\ proc.pc = "rethrown"
  /\ proc' = startFailed(proc, proc.error[1])
  /\ UNCHANGED <<env, inv, probe>>

\* the protocol layer can call the handler of a registered tool in a free slot
CanCall(s, tool) ==
  /\ proc.pc = "running"
  /\ NoneDone
  /\ inv[s].pc = "idle"
  /\ tool \in Tools(env.variant)

\* a call naming a tool the adapter has not registered: the protocol layer
\* finds no handler for it and answers the client itself
ToolNotFound(s) ==
  /\ proc.pc = "running"
  /\ NoneDone
  /\ inv[s].pc = "idle"
  /\ \E tool \in ToolNames \ Tools(env.variant) :
       inv' = [inv EXCEPT ![s] = Refused(tool, <<>>)]
  /\ UNCHANGED <<env, probe, proc>>

AddMessage(s) ==
  /\ CanCall(s, "add_message")
  /\ \E fm \in FirstMessages, msgs \in MessageLists :
       \E times \in [1..Len(msgs) -> Times] :
         LET args == [conversation_first_message |-> JStr(fm), messages |-> JArr(msgs)]
         IN inv' = [inv EXCEPT ![s] = callTool(env, "add_message", args,
                                                AddMessageBody(env, args, times))]
  /\ UNCHANGED <<env, probe, proc>>

SearchMemory(s) ==
  /\ CanCall(s, "search_memory")
  /\ \E q \in Queries, fm \in FirstMessages, limit \in LimitArgs :
       LET args == [query |-> JStr(q), conversation_first_message |-> JStr(fm),
                    memory_limit_number |-> limit]
       IN inv' = [inv EXCEPT ![s] = callTool(env, "search_memory", args,
                                              SearchMemoryBody(env, args))]
  /\ UNCHANGED <<env, probe, proc>>

GetMessage(s) ==
  /\ CanCall(s, "get_message")
  /\ \E fm \in FirstMessages :
       LET args == [conversation_first_message |-> JStr(fm)]
       IN inv' = [inv EXCEPT ![s] = callTool(env, "get_message", args,
                                              GetMessageBody(env, args))]
  /\ UNCHANGED <<env, probe, proc>>

DeleteMemory(s) ==
  /\ CanCall(s, "delete_memory")
  /\ \E ids \in MemoryIdLists :
       LET args == [memory_ids |-> JArr(ids)]
       IN inv' = [inv EXCEPT ![s] = callTool(env, "delete_memory", args,
                                              DeleteMemoryBody(env, args))]
  /\ UNCHANGED <<env, probe, proc>>

AddFeedback(s) ==
  /\ CanCall(s, "add_feedback")
  /\ \E fm \in FirstMessages, opt \in FeedbackOptions :
       LET args == [conversation_first_message |-> JStr(fm),
                    feedback_content |-> JStr(Feedback1),
                    agent_id |-> opt.agent_id, app_id |-> opt.app_id,
                    feedback_time |-> opt.feedback_time, allow_public |-> opt.allow_public,
                    allow_knowledgebase_ids |-> opt.allow_knowledgebase_ids]
       IN inv' = [inv EXCEPT ![s] = callTool(env, "add_feedback", args,
                                              AddFeedbackBody(env, args))]
  /\ UNCHANGED <<env, probe, proc>>

Awaiting(s, via) ==
  /\ proc.pc = "running"
  /\ NoneDone
  /\ inv[s].pc = "awaiting"
  /\ inv[s].sent[1].via = via

Response(status, body, readable) ==
  [kind |-> "response", status |-> status, statusText |-> StatusText(status),
   body |-> body, readable |-> readable]

NetworkError == [kind |-> "network_error"]

\* a reply kept where every pending invocation reads it
Resumed_SharedReply(s, reply, outcome) ==
  [t \in Slots |->
     IF inv[t].pc = "awaiting" THEN handlerResume(inv[t], reply, outcome) ELSE inv[t]]

Resumed(s, reply, outcome) == [inv EXCEPT ![s] = handlerResume(inv[s], reply, outcome)]

\* s[from..to] cut to the characters s has
Slice(s, from, to) ==
  IF from > Len(s) \/ to < from THEN <<>>
  ELSE SubSeq(s, from, IF to > Len(s) THEN Len(s) ELSE to)

\* a body cut into at most n chunks of equal length, the last one taking the rest
ChunksOf(body, n) ==
  LET size == IF Len(body) \div n = 0 THEN 1 ELSE Len(body) \div n
      all == [i \in 1..n |->
                IF i < n THEN Slice(body, (i - 1) * size + 1, i * size)
                ELSE Slice(body, (i - 1) * size + 1, Len(body))]
  IN SelectSeq(all, LAMBDA c : c # <<>>)

\* fetch rejects: the request never got an answer
FetchRejects(s) ==
  /\ Awaiting(s, "fetch")
  /\ inv' = Resumed(s, NetworkError, Throw(NewError(FetchFailed)))
  /\ UNCHANGED <<env, probe, proc>>

\* fetch resolves with a response whose body can be read, or breaks when read
FetchResolves(s) ==
  /\ Awaiting(s, "fetch")
  /\ \E status \in Statuses, body \in Bodies, readable \in BOOLEAN :
       /\ readable \/ body = BodyText
       /\ inv' = Resumed(s, Response(status, body, readable),
                         fetchOutcome(Response(status, body, readable)))
  /\ UNCHANGED <<env, probe, proc>>

\* the https request's 'error' event before any response: reject(err)
HttpsError(s) ==
  /\ Awaiting(s, "https")
  /\ inv' = Resumed(s, NetworkError, Throw(NewError(SocketHangUp)))
  /\ UNCHANGED <<env, probe, proc>>

\* the response's 'data' events, one per chunk, and then its 'end' event
HttpsEnd(s) ==
  /\ Awaiting(s, "https")
  /\ \E status \in Statuses, body \in Bodies, n \in 1..MaxChunks :
       inv' = Resumed(s, Response(status, body, TRUE),
                      httpsOutcome(Response(status, body, TRUE), ChunksOf(body, n)))
  /\ UNCHANGED <<env, probe, proc>>

\* the connection breaks while the body streams and the socket reports it: the
\* request's 'error' event fires, 'end' never does
HttpsBodyError(s) ==
  /\ Awaiting(s, "https")
  /\ \E status \in Statuses :
       inv' = Resumed(s, Response(status, BodyText, FALSE), Throw(NewError(SocketHangUp)))
  /\ UNCHANGED <<env, probe, proc>>

\* the connection closes while the body streams and nothing is reported: the
\* response has no 'error' listener, 'end' never fires, the promise stays pending
HttpsAborted(s) ==
  /\ Awaiting(s, "https")
  /\ inv' = [inv EXCEPT ![s].pc = "stalled"]
  /\ UNCHANGED <<env, probe, proc>>

\* the protocol layer answers the client: the handler's result, or its own
\* refusal of the arguments
Collect(s) ==
  /\ inv[s].pc \in {"done", "refused"}
  /\ inv' = [inv EXCEPT ![s] = Idle]
  /\ proc' = collected(proc, inv[s])
  /\ UNCHANGED <<env, probe>>

Next ==
  \/ StartServer
  \/ StartServerFails
  \/ StartFailed
  \/ \E s \in Slots :
       \/ ToolNotFound(s)
       \/ AddMessage(s)
       \/ SearchMemory(s)
       \/ GetMessage(s)
       \/ DeleteMemory(s)
       \/ AddFeedback(s)
       \/ FetchRejects(s)
       \/ FetchResolves(s)
       \/ HttpsError(s)
       \/ HttpsEnd(s)
       \/ HttpsBodyError(s)
       \/ HttpsAborted(s)
       \/ Collect(s)

Spec == Init /\ [][Next]_vars

(*********************** the derivations on their own ***********************)

\* user identifiers and first messages the derivations are applied to: empty
\* ones, plain ones, and ones that hold the separator
DeriveUsers == {<<>>, <<"a">>, <<"a","\n","b">>, User1}

DeriveMessages == {<<>>, <<"c">>, <<"b","\n","c">>, First1}

\* every channel tag either adapter allows
ChannelTags == {candidateChannelId("part_000")[i] : i \in 1..Len(candidateChannelId("part_000"))}

\* a process of the given adapter configured with user identifier u and channel c
DeriveEnv(variant, u, c) ==
  [variant |-> variant, hasFetch |-> TRUE, MEMOS_API_KEY |-> JStr(ApiKey1),
   MEMOS_USER_ID |-> JStr(u), MEMOS_CHANNEL |-> JStr(c), MEMOS_BASE_URL |-> JUndefined,
   MEMOS_CONVERSATION_ID |-> JUndefined]

ConversationInputs ==
  [kind : {"conversation_in"}, u1 : DeriveUsers, m1 : DeriveMessages,
   u2 : DeriveUsers, m2 : DeriveMessages]

UserInputs ==
  [kind : {"user_in"}, variant : Variants, u : {<<"a">>, User1},
   c1 : ChannelTags, c2 : ChannelTags]

\* a remote reply, or a transport failure, and the number of chunks a body
\* arrives in on the https path
ReplyInputs ==
  [kind : {"reply_in"},
   reply : {Response(status, body, TRUE) : status \in Statuses, body \in Bodies}
             \cup {NetworkError},
   n : 1..MaxChunks]

\* one user and first message under two channels, with and without a
\* configured MEMOS_CONVERSATION_ID
ScopeInputs ==
  [kind : {"scope_in"}, variant : Variants, u : {<<"a">>, User1},
   conversationId : ConversationIds, c1 : ChannelTags, c2 : ChannelTags]

\* user identifiers of which one is another followed by "-" and a channel tag
PairUsers == {User1, User1 \o <<"-">> \o MCPSO, User1 \o <<"-">> \o MEMOS}

IndexTags == {candidateChannelId("index")[i] : i \in 1..Len(candidateChannelId("index"))}

\* two deployments of src/src/index.ts
PairInputs ==
  [kind : {"pair_in"}, u1 : PairUsers, c1 : IndexTags, u2 : PairUsers, c2 : IndexTags]

InitDerive ==
  /\ env = DeriveEnv("index", User1, MEMOS)
  /\ inv = [s \in Slots |-> Idle]
  /\ probe \in ConversationInputs \cup UserInputs \cup ReplyInputs \cup ScopeInputs
                \cup PairInputs
  /\ proc = connected(Starting)

\* the conversation identifier derived for two (user identifier, first message) pairs
DeriveConversationIds ==
  /\ probe.kind = "conversation_in"
  /\ probe' = [kind |-> "conversation_out", in |-> probe,
               id1 |-> actualConversationId(DeriveEnv("index", probe.u1, MEMOS), probe.m1),
               id2 |-> actualConversationId(DeriveEnv("index", probe.u2, MEMOS), probe.m2)]
  /\ UNCHANGED <<env, inv, proc>>

\* the user identifier sent for one configured identifier under two allowed channels
DeriveUserIds ==
  /\ probe.kind = "user_in"
  /\ Includes(candidateChannelId(probe.variant), probe.c1)
  /\ Includes(candidateChannelId(probe.variant), probe.c2)
  /\ probe' = [kind |-> "user_out", in |-> probe,
               id1 |-> actualUserId(DeriveEnv(probe.variant, probe.u, probe.c1)),
               id2 |-> actualUserId(DeriveEnv(probe.variant, probe.u, probe.c2))]
  /\ UNCHANGED <<env, inv, proc>>

\* queryMemos taken along both of its paths for one call and one reply: the
\* request each path sends and the outcome each path ends with
DispatchBothPaths ==
  /\ probe.kind = "reply_in"
  /\ LET body == DeleteMemoryBody(env, [memory_ids |-> JArr(<<>>)])
         failed == probe.reply.kind = "network_error"
     IN probe' =
          [kind |-> "reply_out", in |-> probe,
           fetchRequest |-> Request(env, PathDeleteMemory, body, env.MEMOS_API_KEY, "fetch"),
           httpsRequest |-> Request(env, PathDeleteMemory, body, env.MEMOS_API_KEY, "https"),
           fetchResult |-> IF failed THEN Throw(NewError(FetchFailed))
                           ELSE fetchOutcome(probe.reply),
           httpsResult |-> IF failed THEN Throw(NewError(SocketHangUp))
                           ELSE httpsOutcome(probe.reply,
                                             ChunksOf(probe.reply.body, probe.n))]
  /\ UNCHANGED <<env, inv, proc>>

\* the search_memory body of one user and first message under two channels
DeriveScopes ==
  /\ probe.kind = "scope_in"
  /\ Includes(candidateChannelId(probe.variant), probe.c1)
  /\ Includes(candidateChannelId(probe.variant), probe.c2)
  /\ LET args == [query |-> JStr(First1), conversation_first_message |-> JStr(First1),
                  memory_limit_number |-> JNum(MaxLimit)]
         e(c) == [DeriveEnv(probe.variant, probe.u, c)
                    EXCEPT !.MEMOS_CONVERSATION_ID = probe.conversationId]
     IN probe' = [kind |-> "scope_out", in |-> probe,
                  body1 |-> Written(SearchMemoryBody(e(probe.c1), args)),
                  body2 |-> Written(SearchMemoryBody(e(probe.c2), args))]
  /\ UNCHANGED <<env, inv, proc>>

\* the user identifier two deployments send
DerivePairIds ==
  /\ probe.kind = "pair_in"
  /\ probe' = [kind |-> "pair_out", in |-> probe,
               id1 |-> actualUserId(DeriveEnv("index", probe.u1, probe.c1)),
               id2 |-> actualUserId(DeriveEnv("index", probe.u2, probe.c2))]
  /\ UNCHANGED <<env, inv, proc>>

NextDerive ==
  \/ DeriveConversationIds
  \/ DeriveUserIds
  \/ DispatchBothPaths
  \/ DeriveScopes
  \/ DerivePairIds

SpecDerive == InitDerive /\ [][NextDerive]_vars

(******************************* claims ************************************)

\* slot s holds a finished invocation and its result
Done(s) == inv[s].pc = "done"

\* slot s holds an invocation whose handler was called: one awaiting its reply,
\* stalled, or finished
Invoked(s) == inv[s].pc \in {"awaiting", "stalled", "done"}

\* the invocation in slot s ended with an error-flagged envelope and sent nothing
RejectedUnsent(s) ==
  /\ Done(s)
  /\ inv[s].sent = <<>>
  /\ inv[s].result.kind = "envelope"
  /\ inv[s].result.isError

ApiKeyName == <<"M","E","M","O","S","_","A","P","I","_","K","E","Y">>

\* C1: with no API key configured (unset or empty), every invocation of every
\* tool ends with an error-flagged response whose text contains "MEMOS_API_KEY",
\* and no request leaves the process for it.
T_C1_NoApiKey ==
  ~Truthy(env.MEMOS_API_KEY) =>
    \A s \in Slots :
      Invoked(s) => /\ RejectedUnsent(s)
                    /\ Contains(inv[s].result.text, ApiKeyName)

\* an invocation has ended in a process that has no API key but has a user
\* identifier and a known channel
W_C1_NoApiKey ==
  /\ ~Truthy(env.MEMOS_API_KEY)
  /\ Truthy(env.MEMOS_USER_ID)
  /\ Includes(candidateChannelId(env.variant), MEMOS_CHANNEL_ID(env))
  /\ \E s \in Slots : Done(s) /\ inv[s].tool = "search_memory"

\* C2: with an API key but no user identifier (unset or empty), every
\* invocation of every tool ends with an error-flagged response and no request
\* leaves the process for it.
T_C2_NoUserId ==
  (Truthy(env.MEMOS_API_KEY) /\ ~Truthy(env.MEMOS_USER_ID)) =>
    \A s \in Slots : Invoked(s) => RejectedUnsent(s)

\* an invocation has ended in a process whose user identifier is the empty string
W_C2_NoUserId ==
  /\ Truthy(env.MEMOS_API_KEY)
  /\ env.MEMOS_USER_ID = JStr(<<>>)
  /\ \E s \in Slots : Done(s) /\ inv[s].tool = "add_message"

\* the configured channel, upper-cased, is no member of the allow-list
ChannelNotListed ==
  /\ env.MEMOS_CHANNEL.t = "str"
  /\ ~Includes(candidateChannelId(env.variant), ToUpperCase(env.MEMOS_CHANNEL.s))

\* C3: when the configured channel, upper-cased, is no member of the
\* allow-list, every invocation ends with an error-flagged response and sends
\* nothing; when no channel is configured the default tag is a member, and no
\* invocation is turned down for its channel: each goes on to the dispatcher.
T_C3_Channel ==
  /\ ChannelNotListed => \A s \in Slots : Invoked(s) => RejectedUnsent(s)
  /\ (env.MEMOS_CHANNEL.t = "undefined" /\ Truthy(env.MEMOS_API_KEY)
        /\ Truthy(env.MEMOS_USER_ID)) =>
       \A s \in Slots :
         Invoked(s) =>
           /\ inv[s].sent # <<>> \/ (env.variant = "part_000" /\ ~env.hasFetch)
           /\ Done(s) => ~Contains(inv[s].result.text, UnknownChannelPrefix)

\* an invocation was turned down for its channel alone
W_C3_Channel ==
  /\ ChannelNotListed
  /\ Truthy(env.MEMOS_API_KEY)
  /\ Truthy(env.MEMOS_USER_ID)
  /\ \E s \in Slots :
       /\ Done(s)
       /\ Contains(inv[s].result.text, UnknownChannelPrefix \o ToUpperCase(env.MEMOS_CHANNEL.s))

\* the request the invocation in slot s put on the wire
SentBy(s) == inv[s].sent[1]

\* the reply that ended the invocation in slot s is an HTTP response
Replied(s) == Done(s) /\ inv[s].reply.kind = "response"

\* the failures an invocation can meet
ConfigMissing == ~Truthy(env.MEMOS_API_KEY) \/ ~Truthy(env.MEMOS_USER_ID)

FetchMissing == env.variant = "part_000" /\ ~env.hasFetch

NetworkFailed(s) ==
  \/ inv[s].reply.kind = "network_error"
  \/ inv[s].reply.kind = "response" /\ ~inv[s].reply.readable

NonSuccess(s) == Replied(s) /\ ~IsOk(inv[s].reply.status)

Unparseable(s) ==
  /\ Replied(s)
  /\ IsOk(inv[s].reply.status)
  /\ inv[s].reply.readable
  /\ ~JsonParse(inv[s].reply.body).ok

Failed(s) ==
  \/ ConfigMissing
  \/ ChannelNotListed
  \/ FetchMissing
  \/ NetworkFailed(s)
  \/ NonSuccess(s)
  \/ Unparseable(s)

ErrorEnvelope(s) ==
  /\ inv[s].result.kind = "envelope"
  /\ inv[s].result.isError
  /\ inv[s].result.text # <<>>

CE_C5_StatusAndBody ==
  \A s \in Slots :
    NonSuccess(s) =>
      /\ ErrorEnvelope(s)
      /\ Contains(inv[s].result.text, NumToStr(inv[s].reply.status))
      /\ Contains(inv[s].result.text,
                  IF inv[s].reply.readable THEN inv[s].reply.body ELSE <<>>)

\* the dispatcher succeeded for the invocation in slot s
Succeeded(s) ==
  /\ Replied(s)
  /\ IsOk(inv[s].reply.status)
  /\ inv[s].reply.readable
  /\ JsonParse(inv[s].reply.body).ok \/ SentBy(s).via = "https"

\* the payload the dispatcher succeeded with
Payload(s) ==
  IF JsonParse(inv[s].reply.body).ok
  THEN JsonParse(inv[s].reply.body).v
  ELSE JStr(inv[s].reply.body)

\* C6: when the dispatcher succeeds with payload d, the response is not
\* error-flagged, its text is the JSON serialization of d and its structured
\* content is d.
T_C6_SuccessCarriesPayload ==
  \A s \in Slots :
    Succeeded(s) =>
      /\ inv[s].result.kind = "envelope"
      /\ ~inv[s].result.isError
      /\ inv[s].result.text = JsonStringify(Payload(s))
      /\ inv[s].result.structuredContent = Payload(s)

\* an invocation ended with the payload {"code": 0}, rendered without the space
W_C6_SuccessCarriesPayload ==
  \E s \in Slots :
    /\ Succeeded(s)
    /\ inv[s].reply.body = BodyJson
    /\ inv[s].result.text = <<"{","\"","c","o","d","e","\"",":","0","}">>
    /\ inv[s].result.structuredContent = JObj(<< <<<<"c","o","d","e">>, JNum(0)>> >>)

ConversationTools == {"add_message", "search_memory", "get_message", "add_feedback"}

\* the invocation in slot s dispatched a request that names a conversation
Dispatched(s) ==
  /\ Invoked(s)
  /\ inv[s].sent # <<>>
  /\ inv[s].tool \in ConversationTools

ConversationIdOf(s) == Field(SentBy(s).payload, K_conversation_id)

FirstMessageOf(s) == inv[s].args.conversation_first_message.s

\* C7: the conversation_id a request carries is a function of the configured
\* user identifier and the first message alone: two invocations of conversation
\* tools, the same or different, with the same first message dispatch the same
\* identifier, whatever else is configured.
T_C7_SameConversationId ==
  \A s \in Slots :
    Dispatched(s) =>
      /\ ConversationIdOf(s) =
           actualConversationId([MEMOS_USER_ID |-> env.MEMOS_USER_ID,
                                 MEMOS_CONVERSATION_ID |-> JUndefined],
                                FirstMessageOf(s))
      /\ \A t \in Slots :
           (Dispatched(t) /\ FirstMessageOf(t) = FirstMessageOf(s)) =>
             ConversationIdOf(t) = ConversationIdOf(s)

\* add_message and search_memory are in flight with the same first message, in
\* a process that has a conversation identifier configured
W_C7_SameConversationId ==
  /\ env.MEMOS_CONVERSATION_ID # JUndefined
  /\ \E s, t \in Slots :
       /\ Dispatched(s) /\ inv[s].tool = "add_message"
       /\ Dispatched(t) /\ inv[t].tool = "search_memory"
       /\ FirstMessageOf(s) = FirstMessageOf(t)
       /\ ConversationIdOf(s).t = "str"
       /\ ConversationIdOf(s) = ConversationIdOf(t)

\* the user identifier a request carries: user_id, or the one element of user_ids
UserIdOf(s) ==
  IF inv[s].tool = "delete_memory"
  THEN Field(SentBy(s).payload, K_user_ids).a[1]
  ELSE Field(SentBy(s).payload, K_user_id)

\* C9 as the specification states it: every request carries the bare
\* configured user identifier when the channel is the default one, and the
\* identifier followed by "-" and the channel tag under every other channel.
CE_C9_EffectiveUserId ==
  \A s \in Slots :
    (Invoked(s) /\ inv[s].sent # <<>>) =>
      UserIdOf(s) =
        IF MEMOS_CHANNEL_ID(env) = DefaultChannel(env.variant)
        THEN env.MEMOS_USER_ID
        ELSE JStr(env.MEMOS_USER_ID.s \o <<"-">> \o MEMOS_CHANNEL_ID(env))

\* C8 as the specification states it: two (user identifier, first message)
\* pairs that differ in a component derive different conversation identifiers,
\* the hash being collision-free, also when a component is empty or holds a newline.
CE_C8_DistinctPairsDistinctIds ==
  (probe.kind = "conversation_out"
     /\ <<probe.in.u1, probe.in.m1>> # <<probe.in.u2, probe.in.m2>>) =>
    probe.id1 # probe.id2

\* C10 as the specification states it: one user identifier under two
\* different allowed channels is sent as two different user identifiers.
CE_C10_DistinctAcrossChannels ==
  (probe.kind = "user_out" /\ probe.in.c1 # probe.in.c2) => probe.id1 # probe.id2

\* the process has an API key and a user identifier
Configured == Truthy(env.MEMOS_API_KEY) /\ Truthy(env.MEMOS_USER_ID)

\* the invocation in slot s got past the channel check
PassedChannelCheck(s) ==
  /\ inv[s].sent # <<>> \/ FetchMissing
  /\ Done(s) => ~Contains(inv[s].result.text, UnknownChannelPrefix)

\* the invocation in slot s was turned down as one of an unknown channel
RejectedForChannel(s) ==
  /\ RejectedUnsent(s)
  /\ Contains(inv[s].result.text, UnknownChannelPrefix)

\* C11: a configured MEMOS_CHANNEL value passes the channel check if and only
\* if its upper-cased form is a member of the allow-list; every other value,
\* the empty string included, is rejected.
T_C11_ChannelCheck ==
  (Configured /\ env.MEMOS_CHANNEL.t = "str") =>
    \A s \in Slots :
      Invoked(s) =>
        IF Includes(candidateChannelId(env.variant), ToUpperCase(env.MEMOS_CHANNEL.s))
        THEN PassedChannelCheck(s)
        ELSE RejectedForChannel(s)

\* a request is in flight under the channel "Mcpso", written in mixed case
W_C11_ChannelCheck ==
  /\ Configured
  /\ env.MEMOS_CHANNEL = JStr(<<"M","c","p","s","o">>)
  /\ \E s \in Slots : inv[s].pc = "awaiting" /\ inv[s].sent # <<>>

\* C12 as the README states it: an invocation configured with any of the
\* README's candidate channels is never rejected as one of an unknown channel.
CE_C12_ReadmeChannelsAccepted ==
  (Configured /\ env.MEMOS_CHANNEL.t = "str"
     /\ ToUpperCase(env.MEMOS_CHANNEL.s) \in ReadmeChannels) =>
    \A s \in Slots : Done(s) => ~Contains(inv[s].result.text, UnknownChannelPrefix)

\* the process can dispatch: it is configured, its channel is allowed, and it
\* has a way to send
CanDispatch ==
  /\ Configured
  /\ ~ChannelNotListed
  /\ ~FetchMissing

\* slot s holds a call of search_memory, whether or not its handler was called
SearchCalled(s) == inv[s].pc # "idle" /\ inv[s].tool = "search_memory"

LimitOf(s) == Field(SentBy(s).payload, K_memory_limit_number)

\* C13 as the specification states it: a search whose memory_limit_number is
\* left out or zero dispatches a request whose body holds the limit 6; one
\* with a positive limit n dispatches a request whose body holds n.
CE_C13_DefaultLimit ==
  CanDispatch =>
    \A s \in Slots :
      SearchCalled(s) =>
        /\ inv[s].sent # <<>>
        /\ LimitOf(s) =
             IF inv[s].args.memory_limit_number \in {JUndefined, JNum(0)}
             THEN JNum(DefaultLimit)
             ELSE inv[s].args.memory_limit_number

\* slot s holds an add_message invocation that dispatched its request
MessagesDispatched(s) ==
  /\ Invoked(s)
  /\ inv[s].tool = "add_message"
  /\ inv[s].sent # <<>>

MessagesIn(s) == inv[s].args.messages.a

MessagesOut(s) == Field(SentBy(s).payload, K_messages).a

\* text has the form YYYY-MM-DD HH:mm:ss.SSS
IsChatTime(text) ==
  /\ Len(text) = 23
  /\ \A i \in 1..23 :
       CASE i \in {5, 8} -> text[i] = "-"
         [] i = 11 -> text[i] = " "
         [] i \in {14, 17} -> text[i] = ":"
         [] i = 20 -> text[i] = "."
         [] OTHER -> IsDigit(text[i])

\* dispatched message i keeps the role and content of input message i and has
\* a timestamp
KeepsMessage(s, i) ==
  /\ Field(MessagesOut(s)[i], K_role) = Field(MessagesIn(s)[i], K_role)
  /\ Field(MessagesOut(s)[i], K_content) = Field(MessagesIn(s)[i], K_content)
  /\ Field(MessagesOut(s)[i], K_chat_time).t = "str"
  /\ Field(MessagesOut(s)[i], K_chat_time).s # <<>>

\* dispatched message i carries a timestamp read from the wall clock
Stamped(s, i) ==
  /\ IsChatTime(Field(MessagesOut(s)[i], K_chat_time).s)
  /\ Field(MessagesOut(s)[i], K_chat_time).s \in Times

\* C14 as the specification states it: the dispatched list has the length and
\* order of the input, each entry keeps role and content, an entry that
\* supplied a timestamp keeps it unchanged, an entry that omitted it carries a
\* generated one of the form YYYY-MM-DD HH:mm:ss.SSS, and no entry lacks one.
CE_C14_SuppliedTimestampKept ==
  \A s \in Slots :
    MessagesDispatched(s) =>
      /\ Len(MessagesOut(s)) = Len(MessagesIn(s))
      /\ \A i \in 1..Len(MessagesIn(s)) :
           /\ KeepsMessage(s, i)
           /\ IF HasField(MessagesIn(s)[i], K_chat_time)
              THEN Field(MessagesOut(s)[i], K_chat_time) = Field(MessagesIn(s)[i], K_chat_time)
              ELSE Stamped(s, i)

\* C14: the dispatched list has the length and order of the input, each entry
\* keeps role and content, an entry that supplied a non-empty timestamp keeps
\* it unchanged, an entry that omitted it or supplied the empty string carries
\* a generated one of the form YYYY-MM-DD HH:mm:ss.SSS, and no entry lacks one.
T_C14_Timestamps ==
  \A s \in Slots :
    MessagesDispatched(s) =>
      /\ Len(MessagesOut(s)) = Len(MessagesIn(s))
      /\ \A i \in 1..Len(MessagesIn(s)) :
           /\ KeepsMessage(s, i)
           /\ IF Truthy(Field(MessagesIn(s)[i], K_chat_time))
              THEN Field(MessagesOut(s)[i], K_chat_time) = Field(MessagesIn(s)[i], K_chat_time)
              ELSE Stamped(s, i)

\* a request is in flight whose first message kept the timestamp it brought
\* and whose second, which brought none, was stamped 2026-01-01 09:00:00.001
W_C14_Timestamps ==
  \E s \in Slots :
    /\ MessagesDispatched(s)
    /\ Field(MessagesOut(s)[1], K_chat_time) = JStr(Time0)
    /\ ~HasField(MessagesIn(s)[2], K_chat_time)
    /\ Field(MessagesOut(s)[2], K_chat_time) =
         JStr(<<"2","0","2","6","-","0","1","-","0","1"," ","0","9",":","0","0",":",
                "0","0",".","0","0","1">>)

\* C15 as the specification states it: a success status whose body is not
\* JSON is no failure on any dispatch path: the tool response is a success
\* whose payload is the literal body text.
CE_C15_LiteralTextOnEveryPath ==
  \A s \in Slots :
    Unparseable(s) =>
      /\ inv[s].result.kind = "envelope"
      /\ ~inv[s].result.isError
      /\ inv[s].result.structuredContent = JStr(inv[s].reply.body)
      /\ inv[s].result.text = JsonStringify(JStr(inv[s].reply.body))

\* C16 as the specification states it: an invocation issues at most one
\* request, and exactly one when its configuration checks pass, whatever the
\* reply to it was.
CE_C16_ExactlyOneRequest ==
  \A s \in Slots :
    Invoked(s) =>
      /\ Len(inv[s].sent) <= 1
      /\ (Configured /\ ~ChannelNotListed) => Len(inv[s].sent) = 1

\* the base URL requests go to: the configured one, or the default
ExpectedBaseUrl ==
  IF env.MEMOS_BASE_URL.t = "str" /\ env.MEMOS_BASE_URL.s # <<>>
  THEN env.MEMOS_BASE_URL.s
  ELSE <<"h","t","t","p","s",":","/","/","m","e","m","o","s",".","m","e","m","t","e","n",
         "s","o","r",".","c","n","/","a","p","i","/","o","p","e","n","m","e","m","/","v","1">>

ExpectedPath(tool) ==
  CASE tool = "add_message" -> <<"/","a","d","d","/","m","e","s","s","a","g","e">>
    [] tool = "search_memory" -> <<"/","s","e","a","r","c","h","/","m","e","m","o","r","y">>
    [] tool = "get_message" -> <<"/","g","e","t","/","m","e","s","s","a","g","e">>
    [] tool = "delete_memory" -> <<"/","d","e","l","e","t","e","/","m","e","m","o","r","y">>
    [] tool = "add_feedback" -> <<"/","a","d","d","/","f","e","e","d","b","a","c","k">>

\* C17: every request is a POST to the configured base URL (the default one
\* when none is configured) followed by the path of the invoked tool, and
\* carries the header Authorization: Token <configured API key>.
T_C17_Endpoint ==
  \A s \in Slots :
    (Invoked(s) /\ inv[s].sent # <<>>) =>
      /\ SentBy(s).method = "POST"
      /\ SentBy(s).url = ExpectedBaseUrl \o ExpectedPath(inv[s].tool)
      /\ SentBy(s).authorization = <<"T","o","k","e","n"," ">> \o env.MEMOS_API_KEY.s

\* a delete_memory request is in flight to a configured base URL
W_C17_Endpoint ==
  \E s \in Slots :
    /\ inv[s].pc = "awaiting"
    /\ inv[s].tool = "delete_memory"
    /\ SentBy(s).url = <<"h","t","t","p","s",":","/","/","h","/","d","e","l","e","t","e",
                         "/","m","e","m","o","r","y">>
    /\ SentBy(s).authorization = <<"T","o","k","e","n"," ","k","1">>

\* the provenance tag the adapter sends when no channel is configured
ProvenanceWithoutChannel == JStr(Source([env EXCEPT !.MEMOS_CHANNEL = JUndefined]))

\* C18 as the specification states it: every request body carries one
\* provenance field whose value is the adapter's fixed tag: the one it sends
\* with no channel configured, whatever the channel and the invocation's
\* parameters are.
CE_C18_FixedProvenance ==
  \A s \in Slots :
    (Invoked(s) /\ inv[s].sent # <<>>) =>
      Field(SentBy(s).payload, K_source) = ProvenanceWithoutChannel

\* the clock readings an invocation of the tool in slot s can meet
ClockReadings(s) ==
  IF inv[s].tool = "add_message"
  THEN [1..Len(inv[s].args.messages.a) -> Times]
  ELSE {<<>>}

\* the body the tool in slot s builds from its own arguments
OwnBody(s, times) ==
  CASE inv[s].tool = "add_message" -> AddMessageBody(env, inv[s].args, times)
    [] inv[s].tool = "search_memory" -> SearchMemoryBody(env, inv[s].args)
    [] inv[s].tool = "get_message" -> GetMessageBody(env, inv[s].args)
    [] inv[s].tool = "delete_memory" -> DeleteMemoryBody(env, inv[s].args)
    [] inv[s].tool = "add_feedback" -> AddFeedbackBody(env, inv[s].args)

\* the invocation of slot s run alone, up to its first await
Alone(s, times) == handlerStart(env, inv[s].tool, inv[s].args, OwnBody(s, times))

\* what the dispatcher makes of the reply slot s received, taken on its own
OwnOutcome(s) ==
  IF inv[s].reply.kind = "network_error"
  THEN Throw(NewError(IF SentBy(s).via = "fetch" THEN FetchFailed ELSE SocketHangUp))
  ELSE IF SentBy(s).via = "fetch" THEN fetchOutcome(inv[s].reply)
  ELSE IF inv[s].reply.readable THEN httpsOutcome(inv[s].reply, <<inv[s].reply.body>>)
  ELSE Throw(NewError(SocketHangUp))

\* the request and the envelope of every invocation are those it produces alone
Isolated ==
  \A s \in Slots :
    Invoked(s) =>
      /\ \E times \in ClockReadings(s) : inv[s].sent = Alone(s, times).sent
      /\ Done(s) =>
           inv[s].result =
             IF inv[s].reply.kind = "none"
             THEN Alone(s, CHOOSE times \in ClockReadings(s) : TRUE).result
             ELSE handlerSettle(OwnOutcome(s))

\* a step taken for one invocation leaves every other invocation as it was
OneAtATime ==
  \A s, t \in Slots : (s # t /\ inv'[s] # inv[s]) => inv'[t] = inv[t]

\* C19: with several invocations in flight and their steps interleaved at the
\* network call, each invocation's request and envelope are the ones it would
\* produce alone with the same parameters, configuration and reply, and a
\* reply delivered to one invocation changes nothing of another.
T_C19_Isolation == []Isolated /\ [][OneAtATime]_vars

\* search_memory has ended on a reply while an add_message with another first
\* message, dispatched before that reply came, still awaits its own
W_C19_Isolation ==
  \E s, t \in Slots :
    /\ s # t
    /\ Replied(s) /\ inv[s].tool = "search_memory"
    /\ inv[t].pc = "awaiting" /\ inv[t].tool = "add_message"
    /\ FirstMessageOf(s) # FirstMessageOf(t)

\* a callback that settles the invocation of slot s is still registered with
\* the transport
Settleable(s) == inv[s].pc = "awaiting"

\* C20 as the specification states it, in the form a finite run refutes: every
\* invocation whose handler was called has completed or can still be completed
\* by an event of the transport; none is left pending with nothing that will
\* ever settle it.
CE_C20_NothingPendsForever ==
  \A s \in Slots : Invoked(s) => Done(s) \/ Settleable(s)

\* text is a structured record of the start-up error: a JSON object with a
\* title and the error's text
IsErrorRecord(text) ==
  /\ JsonParse(text).ok
  /\ JsonParse(text).v.t = "obj"
  /\ Field(JsonParse(text).v, K_error).t = "str"
  /\ Field(JsonParse(text).v, K_details) = JStr(ErrorToString(proc.error[1]))

\* a failed start has written its records, and the process that ended has
\* ended with a status other than 0 and never served a tool call
FailedStartRecorded ==
  /\ proc.error # <<>> =>
       /\ proc.pc \in {"rethrown", "exited"}
       /\ proc.stderr # <<>>
       /\ \A i \in 1..Len(proc.stderr) : IsErrorRecord(proc.stderr[i])
       /\ \A s \in Slots : inv[s] = Idle
  /\ proc.pc = "exited" =>
       /\ proc.error # <<>>
       /\ Len(proc.exit) = 1
       /\ proc.exit[1] # 0

\* the step that ends the process finds a record already written, and nothing
\* happens in a process that has ended
ExitAfterRecord ==
  /\ (proc.pc # "exited" /\ proc'.pc = "exited") => proc.stderr # <<>>
  /\ proc.pc = "exited" => UNCHANGED vars

\* C21: when establishing the transport fails at start-up, a structured error
\* record is written to the diagnostic stream and then the process ends with a
\* non-zero status; the exit never precedes the record, and the process never
\* keeps running after a failed start.
T_C21_FailedStart == []FailedStartRecorded /\ [][ExitAfterRecord]_vars

\* the process has ended with status 1 after writing both records
W_C21_FailedStart ==
  /\ proc.pc = "exited"
  /\ proc.exit = <<1>>
  /\ Len(proc.stderr) = 2
  /\ proc.stderr[1] = <<"{","\"","e","r","r","o","r","\"",":","\"","E","r","r","o","r"," ","o","c","c","u","r","r","e","d"," ","w","h","i","l","e"," ","s","t","a","r","t","i","n","g"," ","s","e","r","v","e","r","\"",",","\"","d","e","t","a","i","l","s","\"",":","\"","E","r","r","o","r",":"," ","t","r","a","n","s","p","o","r","t"," ","\\","\"","s","t","d","i","o","\\","\""," ","c","l","o","s","e","d","\"","}">>
  /\ proc.stderr[2] = <<"{","\"","e","r","r","o","r","\"",":","\"","S","e","r","v","e","r"," ","f","a","i","l","e","d"," ","t","o"," ","s","t","a","r","t","\"",",","\"","d","e","t","a","i","l","s","\"",":","\"","E","r","r","o","r",":"," ","t","r","a","n","s","p","o","r","t"," ","\\","\"","s","t","d","i","o","\\","\""," ","c","l","o","s","e","d","\"","}">>

\* a step that hands a finished invocation's result to the client leaves the
\* process as it was when it had just started, with the slot free again; and
\* no step of a running process ends it
ProcessGoesOn ==
  /\ \A s \in Slots :
       (Done(s) /\ inv'[s] # inv[s]) =>
         /\ proc' = connected(Starting)
         /\ inv'[s] = Idle
  /\ proc.pc = "running" => proc'.pc = "running"

\* C22: only a failed start ends the process: a process that has ended never
\* got to run, and whatever an invocation ended in, a configuration, remote or
\* network error included, the process runs on in the state of a process just
\* started, so that a following invocation is handled as a first one.
T_C22_OnlyStartIsFatal ==
  [](proc.pc = "exited" => proc.error # <<>>) /\ [][ProcessGoesOn]_vars

\* in a running process an invocation has ended in a network error while
\* another is still in flight
W_C22_OnlyStartIsFatal ==
  /\ proc.pc = "running"
  /\ \E s, t \in Slots :
       /\ Done(s)
       /\ inv[s].reply.kind = "network_error"
       /\ inv[s].result.isError
       /\ inv[t].pc = "awaiting"

\* C23 as the README states it: a call that names add_message, search_memory
\* or get_message with arguments its schema takes is routed to a handler
\* registered for that tool.
CE_C23_ReadmeToolsRouted ==
  \A s \in Slots :
    (inv[s].pc # "idle" /\ inv[s].tool \in ReadmeTools
       /\ schemaAccepts(inv[s].tool, inv[s].args)) =>
      /\ inv[s].tool \in Tools(env.variant)
      /\ Invoked(s)

UserIdName == <<"M","E","M","O","S","_","U","S","E","R","_","I","D">>

\* what the error texts of the three checks are told apart by
CheckMarks == {ApiKeyName, UserIdName, UnknownChannelPrefix}

\* the mark of the first check the configuration fails, in the order API key,
\* user identifier, channel; <<>> when it passes all three
FirstFailedCheck ==
  IF ~Truthy(env.MEMOS_API_KEY) THEN ApiKeyName
  ELSE IF ~Truthy(env.MEMOS_USER_ID) THEN UserIdName
  ELSE IF ChannelNotListed THEN UnknownChannelPrefix
  ELSE <<>>

\* C24: when the configuration fails one or more of the three checks, every
\* invocation ends with the error of the first failing check in the order API
\* key, user identifier, channel, and with that one only; a request is sent
\* only by an invocation whose configuration passes all three checks.
T_C24_CheckOrder ==
  \A s \in Slots :
    Invoked(s) =>
      /\ FirstFailedCheck # <<>> =>
           /\ RejectedUnsent(s)
           /\ \A mark \in CheckMarks :
                Contains(inv[s].result.text, mark) <=> mark = FirstFailedCheck
      /\ inv[s].sent # <<>> => FirstFailedCheck = <<>>

\* an invocation has ended in a process that fails all three checks at once
W_C24_CheckOrder ==
  /\ ~Truthy(env.MEMOS_API_KEY)
  /\ ~Truthy(env.MEMOS_USER_ID)
  /\ ChannelNotListed
  /\ \E s \in Slots :
       /\ Done(s)
       /\ inv[s].tool = "search_memory"
       /\ Contains(inv[s].result.text, ErrApiKeyNotSet)

\* the keys of a JSON object
KeysOf(obj) == {obj.o[i][1] : i \in 1..Len(obj.o)}

\* the effective user identifier: the configured one under the default
\* channel, and the configured one, "-" and the channel tag under any other
EffectiveUserId ==
  IF MEMOS_CHANNEL_ID(env) = DefaultChannel(env.variant)
  THEN env.MEMOS_USER_ID
  ELSE JStr(env.MEMOS_USER_ID.s \o <<"-">> \o MEMOS_CHANNEL_ID(env))

\* C25: the request of a delete_memory invocation is scoped by the effective
\* user identifier alone: its body holds the one-element list of that
\* identifier, the list of memory ids exactly as given, the provenance field
\* and nothing else, so no conversation identifier.
T_C25_DeleteScope ==
  \A s \in Slots :
    (Invoked(s) /\ inv[s].tool = "delete_memory" /\ inv[s].sent # <<>>) =>
      /\ Field(SentBy(s).payload, K_user_ids) = JArr(<<EffectiveUserId>>)
      /\ Field(SentBy(s).payload, K_memory_ids) = inv[s].args.memory_ids
      /\ ~HasField(SentBy(s).payload, K_conversation_id)
      /\ KeysOf(SentBy(s).payload) = {K_user_ids, K_memory_ids, K_source}

\* a deletion of two memories is on the wire under the channel MCPSO, in a
\* process that has a conversation identifier configured
W_C25_DeleteScope ==
  /\ MEMOS_CHANNEL_ID(env) = MCPSO
  /\ Truthy(env.MEMOS_CONVERSATION_ID)
  /\ \E s \in Slots :
       /\ inv[s].pc = "awaiting"
       /\ inv[s].tool = "delete_memory"
       /\ Len(inv[s].args.memory_ids.a) = 2
       /\ Field(SentBy(s).payload, K_user_ids).a[1].s = env.MEMOS_USER_ID.s \o <<"-","M","C","P","S","O">>
       /\ Field(SentBy(s).payload, K_memory_ids).a = inv[s].args.memory_ids.a

\* a request without the note of the path that sent it
OnTheWire(r) ==
  [method |-> r.method, url |-> r.url, contentType |-> r.contentType,
   authorization |-> r.authorization, payload |-> r.payload]

\* C26 as the specification states it: for one call and one remote reply or
\* transport failure, the fetch path and the https path send the same request
\* and end with the same outcome, a value or a failure with one message.
CE_C26_PathsEquivalent ==
  probe.kind = "reply_out" =>
    /\ OnTheWire(probe.fetchRequest) = OnTheWire(probe.httpsRequest)
    /\ probe.fetchResult = probe.httpsResult

\* C27 as the specification states it: under two channels one user and first
\* message are sent with the same conversation_id, the digest of the bare user
\* id, a newline and the first message and never MEMOS_CONVERSATION_ID, while
\* the user_id sent differs when the channels do.
CE_C27_ConversationIdIgnoresChannel ==
  probe.kind = "scope_out" =>
    /\ Field(probe.body1, K_conversation_id)
         = JStr(stringToMd5(probe.in.u \o <<"\n">> \o First1))
    /\ Field(probe.body2, K_conversation_id) = Field(probe.body1, K_conversation_id)
    /\ probe.in.c1 # probe.in.c2 =>
         Field(probe.body1, K_user_id) # Field(probe.body2, K_user_id)

\* C28 as the specification states it: two deployments that differ in their
\* (user id, channel) pair never send the same user identifier, also when a
\* user id holds "-" and a channel tag.
CE_C28_PairsInjective ==
  (probe.kind = "pair_out" /\ <<probe.in.u1, probe.in.c1>> # <<probe.in.u2, probe.in.c2>>) =>
    probe.id1 # probe.id2

====
